---- MODULE Spec2Model ----
(***************************************************************************)
(* AI-Meeting-Summarizer: the AI service layer (aiService.js).             *)
(*                                                                         *)
(* AIServiceManager holds an ordered list of AIService adapters            *)
(* (GroqService, OpenAIService) and generateSummary tries them in order.   *)
(* A generateSummary call is an async function: it runs synchronously up   *)
(* to the adapter's `await axios.post(...)`, is suspended there, and is    *)
(* resumed by the provider's response.  Several calls (one per HTTP        *)
(* request) may be suspended at the same time on the one singleton manager.*)
(*                                                                         *)
(* Registry indices are the code's 0-based indices: At(i) is services[i].  *)
(***************************************************************************)
EXTENDS Integers, Sequences, FiniteSets, TLC

\* ------------------------------------------------------------------ bounds
\* Largest registry considered (the constructor registers 2 adapters, the
\* tests add a third with addService).
MaxServices == 2
\* Number of generateSummary calls that may be in progress at once.
NumCalls == 2

\* Longest transcript or instructions text handed to an adapter directly.
MaxLen == 2
\* Numbers of PUT /summary/:id and POST /share requests made.
MaxPuts == 1
MaxShares == 1

Calls == 1..NumCalls

\* ------------------------------------------------------------- value sets
ServiceNames == {"Groq", "OpenAI"}

\* An adapter after construction.  name: getServiceStatus().name;
\* cfgKey: config.apiKey is non-empty; hasApiKey: this.apiKey
\* (config.apiKey || process.env.<X>_API_KEY) is non-empty.
Adapters ==
    { a \in [name : ServiceNames, cfgKey : BOOLEAN, hasApiKey : BOOLEAN] :
        a.cfgKey => a.hasApiKey }

Transcripts == {"hello"}
Instructions == {"", "brief"}
Contents == {"", "X"}
Statuses == {400, 401, 403, 429, 500}

\* What axios.post settles with: a 2xx response with a completion, a 2xx
\* response without choices[0], an error without a response (error.code),
\* or a non-2xx response (error.response.status).
Responses ==
    [type : {"ok"}, content : Contents]
    \cup [type : {"malformed"}]
    \cup [type : {"noresponse"}, code : {"ECONNABORTED", "ECONNREFUSED"}]
    \cup [type : {"http"}, status : Statuses]

NoError == [kind |-> "none"]
NoResult == [content |-> "none"]

VARIABLES
    services,             \* AIServiceManager.services
    currentServiceIndex,  \* AIServiceManager.currentServiceIndex
    pc,                   \* per call: "idle", "await", "returned", "thrown"
    request,              \* the (transcript, instructions) the calls pass
    i,                    \* per call: the loop variable i of generateSummary
    lastError,            \* per call: the local lastError
    attempts,             \* per call: indices whose generateSummary was invoked
    failed,               \* per call: indices whose failure was caught (console.error)
    posts,                \* per call: indices an axios.post was issued for
    inflight,             \* per call: indices with an axios.post outstanding
    result,               \* per call: the value generateSummary resolved with
    error,                \* per call: the Error generateSummary rejected with
    adapterCall,          \* one adapter's generateSummary called on its own
    statusRun,            \* one validateServices call
    http,                 \* the HTTP layer: global stores and the requests being handled
    retryRun,             \* one APIUtils.retryCall in the browser
    boot,                 \* the server process starting up
    browser               \* the browser page: appState, controls, pending callbacks

summaryVars == <<services, currentServiceIndex, pc, request, i, lastError,
                 attempts, failed, posts, inflight, result, error>>

restVars == <<http, retryRun, boot, browser>>

vars == <<summaryVars, adapterCall, statusRun, restVars>>

\* ---------------------------------------------------------------- adapters
At(k) == services[k + 1]

\* AIService.getServiceStatus, overridden by both adapters to set the name.
GetServiceStatus(a) == [name |-> a.name, configured |-> a.cfgKey]

\* service.constructor.name, used by the manager's console.error.
ConstructorName(a) == IF a.name = "Groq" THEN "GroqService" ELSE "OpenAIService"

\* Variant: the catch block lacks the ECONNABORTED test.
AdapterErrorKindNoAbortTest(r) ==
    IF r.type = "http" /\ r.status = 401 THEN "InvalidCredentials"
    ELSE IF r.type = "http" /\ r.status = 429 THEN "RateLimited"
    ELSE IF r.type = "http" /\ r.status >= 500 THEN "ProviderUnavailable"
    ELSE "ProviderError"

\* The catch block of GroqService/OpenAIService.generateSummary: which Error
\* the adapter throws for a failed axios.post.  A 2xx response without
\* choices[0] raises a TypeError inside the try and lands in the same catch.
AdapterErrorKind(r) ==
    IF r.type = "noresponse" /\ r.code = "ECONNABORTED" THEN "Timeout"
    ELSE IF r.type = "http" /\ r.status = 401 THEN "InvalidCredentials"
    ELSE IF r.type = "http" /\ r.status = 429 THEN "RateLimited"
    ELSE IF r.type = "http" /\ r.status >= 500 THEN "ProviderUnavailable"
    ELSE "ProviderError"

AdapterError(k, kind) ==
    [kind |-> kind, idx |-> k, service |-> ConstructorName(At(k))]

\* ----------------------------------------------------------------- manager
\* Variant: the configured check is missing, no adapter is skipped.
SkipsNone(a) == FALSE

\* generateSummary's `if (!status.configured) continue`.
Skips(a) == ~GetServiceStatus(a).configured

\* Variant: the loop resumes at the shared last-successful index.
LoopStartAtHint == currentServiceIndex

\* `for (let i = 0; ...)`.
LoopStart == 0

\* Variant: a provider's failure ends the loop (the error is not recovered).
NextAfterFailureBreak(k) == Len(services)

\* Variant: a failed provider is tried again.
NextAfterFailureRetry(k) == k

\* The `continue` of the catch block followed by the loop's i++.
NextAfterFailure(k) == k + 1

\* metadata.attemptedServices of a success at index k.
AttemptedServices(k) == k + 1

\* Variant: the result names the preferred (first registered) service.
ManagerResultOfFirst(k, content) ==
    [content |-> content,
     service |-> IF At(k).name = "Groq" THEN "groq" ELSE "openai",
     attemptedServices |-> k + 1,
     successfulService |-> GetServiceStatus(At(0)).name]

\* The value generateSummary resolves with after a success at index k.
ManagerResult(k, content) ==
    [content |-> content,
     service |-> IF At(k).name = "Groq" THEN "groq" ELSE "openai",
     attemptedServices |-> AttemptedServices(k),
     successfulService |-> GetServiceStatus(At(k)).name]

\* Variant: the adapter that succeeded is moved to the front of the registry.
RegistryPromote(k) ==
    <<At(k)>> \o SubSeq(services, 1, k) \o SubSeq(services, k + 2, Len(services))

\* this.services after a success at index k: the success path assigns
\* this.currentServiceIndex only.
RegistryAfterSuccess(k) == services

\* `throw new Error('No AI services configured')`.
NoServicesError == [kind |-> "NoProvidersConfigured", lastError |-> NoError]

\* Variant: the last provider failure is dropped from the error.
AllFailedErrorUnknown(le) == [kind |-> "AllProvidersFailed", lastError |-> NoError]

\* Variant: the last provider's own error is rethrown.
AllFailedErrorRethrow(le) == le

\* `throw new Error(`All AI services failed. Last error: ${lastError?.message
\* || 'Unknown error'}`)`: the one failure the error carries is lastError.
AllFailedError(le) == [kind |-> "AllProvidersFailed", lastError |-> le]

\* The synchronous run of the for-loop from index k up to the next
\* suspension (an adapter issued axios.post: next = "post") or up to the end
\* of the loop (next = "exhausted").  st carries lastError, attempts, failed.
RECURSIVE Loop(_, _)
Loop(k, st) ==
    IF k >= Len(services) THEN [st EXCEPT !.i = k, !.next = "exhausted"]
    ELSE IF Skips(At(k)) THEN Loop(k + 1, st)
    ELSE LET inv == [st EXCEPT !.attempts = Append(@, k)]
         IN  IF ~At(k).hasApiKey
             THEN \* the adapter throws '... API key not configured'
                  Loop(NextAfterFailure(k),
                       [inv EXCEPT !.lastError = AdapterError(k, "KeyNotConfigured"),
                                   !.failed = Append(@, k)])
             ELSE [inv EXCEPT !.i = k, !.next = "post"]

LoopState(c) ==
    [i |-> i[c], next |-> "none", lastError |-> lastError[c],
     attempts |-> attempts[c], failed |-> failed[c]]

\* Apply the outcome r of Loop to call c, whose outstanding requests are fl.
Continue(c, r, fl) ==
    /\ i' = [i EXCEPT ![c] = r.i]
    /\ lastError' = [lastError EXCEPT ![c] = r.lastError]
    /\ attempts' = [attempts EXCEPT ![c] = r.attempts]
    /\ failed' = [failed EXCEPT ![c] = r.failed]
    /\ IF r.next = "post"
       THEN /\ pc' = [pc EXCEPT ![c] = "await"]
            /\ posts' = [posts EXCEPT ![c] = Append(@, r.i)]
            /\ inflight' = [inflight EXCEPT ![c] = fl \cup {r.i}]
            /\ error' = error
       ELSE /\ pc' = [pc EXCEPT ![c] = "thrown"]
            /\ error' = [error EXCEPT ![c] = AllFailedError(r.lastError)]
            /\ posts' = posts
            /\ inflight' = [inflight EXCEPT ![c] = fl]

\* ------------------------------------------------------------------ actions
\* Calls are numbered in the order in which they begin.
IsNextCall(c) == pc[c] = "idle" /\ \A d \in Calls : d < c => pc[d] # "idle"

\* generateSummary called on a manager whose services list is empty.
CallEmptyRegistry(c) ==
    /\ IsNextCall(c)
    /\ Len(services) = 0
    /\ pc' = [pc EXCEPT ![c] = "thrown"]
    /\ error' = [error EXCEPT ![c] = NoServicesError]
    /\ UNCHANGED <<services, currentServiceIndex, request, i, lastError,
                   attempts, failed, posts, inflight, result>>

\* generateSummary called: runs to the first axios.post or to the final throw.
CallBegin(c) ==
    /\ IsNextCall(c)
    /\ Len(services) # 0
    /\ Continue(c, Loop(LoopStart, LoopState(c)), inflight[c])
    /\ UNCHANGED <<services, currentServiceIndex, request, result>>

\* The provider answers with a completion: the adapter returns it and the
\* manager returns it annotated, recording the index.
RespondSuccess(c, r) ==
    /\ pc[c] = "await"
    /\ r.type = "ok"
    /\ inflight' = [inflight EXCEPT ![c] = @ \ {i[c]}]
    /\ currentServiceIndex' = i[c]
    /\ result' = [result EXCEPT ![c] = ManagerResult(i[c], r.content)]
    /\ pc' = [pc EXCEPT ![c] = "returned"]
    /\ lastError' = [lastError EXCEPT ![c] = NoError]  \* the local is gone
    /\ services' = RegistryAfterSuccess(i[c])
    /\ UNCHANGED <<request, i, attempts, failed, posts, error>>

\* The provider call fails: the adapter throws, the manager catches, logs,
\* sets lastError and goes on with the loop.
RespondFailure(c, r) ==
    /\ pc[c] = "await"
    /\ r.type # "ok"
    /\ LET k == i[c]
           caught == [LoopState(c) EXCEPT
                        !.lastError = AdapterError(k, AdapterErrorKind(r)),
                        !.failed = Append(@, k)]
       IN  Continue(c, Loop(NextAfterFailure(k), caught), inflight[c] \ {k})
    /\ UNCHANGED <<services, currentServiceIndex, request, result>>

RECURSIVE SeqsUpTo(_, _)
SeqsUpTo(S, n) ==
    IF n = 0 THEN {<<>>}
    ELSE LET shorter == SeqsUpTo(S, n - 1)
         IN  shorter \cup {Append(s, x) : s \in shorter, x \in S}

\* The manager after construction and the addService calls (or the reset of
\* `services`) that set the registry up; no generateSummary call has begun.
\* The transcript and instructions the callers pass are drawn here.
ManagerInit ==
    /\ services \in SeqsUpTo(Adapters, MaxServices)
    /\ currentServiceIndex = 0
    /\ pc = [c \in Calls |-> "idle"]
    /\ request \in [transcript : Transcripts, instructions : Instructions]
    /\ i = [c \in Calls |-> 0]
    /\ lastError = [c \in Calls |-> NoError]
    /\ attempts = [c \in Calls |-> <<>>]
    /\ failed = [c \in Calls |-> <<>>]
    /\ posts = [c \in Calls |-> <<>>]
    /\ inflight = [c \in Calls |-> {}]
    /\ result = [c \in Calls |-> NoResult]
    /\ error = [c \in Calls |-> NoError]

\* No adapter is called on its own.
NoAdapterCall == [pc |-> "none"]

\* No validateServices call is made.
NoStatusRun == [pc |-> "none"]

\* No HTTP request is handled, no retryCall runs, the startup and the browser
\* page are not looked at.
NotRunning == [pc |-> "none"]

RestIdle ==
    /\ http = NotRunning
    /\ retryRun = NotRunning
    /\ boot = NotRunning
    /\ browser = NotRunning

Init ==
    /\ ManagerInit
    /\ adapterCall = NoAdapterCall
    /\ statusRun = NoStatusRun
    /\ RestIdle

Next ==
    /\ \E c \in Calls :
        \/ CallEmptyRegistry(c)
        \/ CallBegin(c)
        \/ \E r \in Responses : RespondSuccess(c, r)
        \/ \E r \in Responses : RespondFailure(c, r)
    /\ UNCHANGED <<adapterCall, statusRun, restVars>>

Spec == Init /\ [][Next]_vars

\* ------------------------------------------- an adapter called on its own
\* GroqService/OpenAIService.generateSummary(transcript, instructions) as
\* the adapter tests call it.  Texts are sequences of characters.
Chars == {" ", "a"}
Texts == SeqsUpTo(Chars, MaxLen)

\* String.prototype.trim: leading and trailing white space removed.
RECURSIVE TrimLeft(_)
TrimLeft(s) ==
    IF s = <<>> THEN s
    ELSE IF Head(s) = " " THEN TrimLeft(Tail(s)) ELSE s

RECURSIVE TrimRight(_)
TrimRight(s) ==
    IF s = <<>> THEN s
    ELSE IF s[Len(s)] = " " THEN TrimRight(SubSeq(s, 1, Len(s) - 1)) ELSE s

Trim(s) == TrimRight(TrimLeft(s))

\* The fixed default prompt.
DefaultInstructions == <<"default">>

\* `instructions.trim() || defaultInstructions` and the user message built
\* from it; the transcript goes into the message as it was passed.
FullPrompt(ins, t) ==
    [prompt |-> IF Trim(ins) = <<>> THEN DefaultInstructions ELSE Trim(ins),
     transcript |-> t]

\* error.response.data.error.message of a non-2xx response ("" when absent).
ProviderMessages == {"", "quota"}

\* error.message of the axios error.
AxiosMessage(r) ==
    IF r.type = "http" THEN "Request failed with status code"
    ELSE IF r.type = "noresponse" THEN r.code
    ELSE "Cannot read properties of undefined"

\* The Error the adapter's catch block throws for response r: its kind and,
\* for the generic '<X> service error: ...', the message it passes on.
AdapterThrown(r, pm) ==
    [kind |-> AdapterErrorKind(r),
     detail |-> IF AdapterErrorKind(r) # "ProviderError" THEN ""
                ELSE IF pm # "" THEN pm ELSE AxiosMessage(r)]

AdapterCallInit ==
    [pc : {"idle"}, svc : Adapters, transcript : Texts, instructions : Texts,
     posted : {<<>>}, response : {[type |-> "none"]},
     providerMessage : {""}, outcome : {[kind |-> "none"]}]

\* `if (!this.apiKey) throw new Error('... API key not configured')`.
AdapterCallNoKey ==
    /\ adapterCall.pc = "idle"
    /\ ~adapterCall.svc.hasApiKey
    /\ adapterCall' = [adapterCall EXCEPT
                         !.pc = "thrown",
                         !.outcome = [kind |-> "KeyNotConfigured", detail |-> ""]]

\* The adapter builds the prompt and issues axios.post.
AdapterCallPost ==
    /\ adapterCall.pc = "idle"
    /\ adapterCall.svc.hasApiKey
    /\ adapterCall' = [adapterCall EXCEPT
                         !.pc = "await",
                         !.posted = <<FullPrompt(adapterCall.instructions,
                                                 adapterCall.transcript)>>]

\* axios.post resolved and choices[0].message.content is returned.
AdapterRespondOk(r) ==
    /\ adapterCall.pc = "await"
    /\ r.type = "ok"
    /\ adapterCall' = [adapterCall EXCEPT
                         !.pc = "returned",
                         !.response = r,
                         !.outcome = [kind |-> "ok", content |-> r.content]]

\* axios.post rejected, or the response had no choices[0]: the catch block.
AdapterRespondError(r, pm) ==
    /\ adapterCall.pc = "await"
    /\ r.type # "ok"
    /\ pm # "" => r.type = "http"
    /\ adapterCall' = [adapterCall EXCEPT
                         !.pc = "thrown",
                         !.response = r,
                         !.providerMessage = pm,
                         !.outcome = AdapterThrown(r, pm)]

\* The manager is not used: its registry is empty and no call is made.
InitAdapter ==
    /\ ManagerInit
    /\ services = <<>>
    /\ request = [transcript |-> "hello", instructions |-> ""]
    /\ adapterCall \in AdapterCallInit
    /\ statusRun = NoStatusRun
    /\ RestIdle

NextAdapter ==
    /\ \/ AdapterCallNoKey
       \/ AdapterCallPost
       \/ \E r \in Responses : AdapterRespondOk(r)
       \/ \E r \in Responses, pm \in ProviderMessages : AdapterRespondError(r, pm)
    /\ UNCHANGED <<summaryVars, statusRun, restVars>>

SpecAdapter == InitAdapter /\ [][NextAdapter]_vars

\* ------------------------------------------------------- validateServices
\* What the axios.get of validateConnection settles with: a 2xx response
\* (axios resolves for 2xx only), an error without a response, or a non-2xx
\* response.
ProbeResponses ==
    [type : {"ok"}, status : {200, 204}]
    \cup [type : {"noresponse"}, code : {"ECONNABORTED", "ECONNREFUSED"}]
    \cup [type : {"http"}, status : {401, 500}]

\* validateConnection returned without issuing a request.
NoProbe == [type |-> "none"]

NoEntry == [status |-> "none"]

\* validateConnection's `if (!this.apiKey) return false`: a request is
\* issued only by an adapter that holds a key.
NeedsProbe(a) == a.hasApiKey

\* Variant: validateConnection lets the request's error escape.
ValidateConnectionRethrow(a, p) ==
    [threw |-> a.hasApiKey /\ p.type \in {"noresponse", "http"},
     value |-> a.hasApiKey /\ p.type = "ok" /\ p.status = 200]

\* GroqService/OpenAIService.validateConnection for probe outcome p: whether
\* it threw, and the boolean it returned.
ValidateConnection(a, p) ==
    [threw |-> FALSE,
     value |-> a.hasApiKey /\ p.type = "ok" /\ p.status = 200]

\* Variant: the status is derived from `configured` instead of the check.
StatusEntryFromConfigured(a, vc) ==
    [configured |-> GetServiceStatus(a).configured, connected |-> vc.value,
     status |-> IF GetServiceStatus(a).configured THEN "healthy" ELSE "unavailable"]

\* The entry validateServices stores under the adapter's name.
StatusEntry(a, vc) ==
    IF vc.threw
    THEN [configured |-> GetServiceStatus(a).configured, connected |-> FALSE,
          status |-> "error"]
    ELSE [configured |-> GetServiceStatus(a).configured, connected |-> vc.value,
          status |-> IF vc.value THEN "healthy" ELSE "unavailable"]

\* Variant: the loop stops at the first adapter that is not healthy.
StatusNextStopOnFailure(k, e) == IF e.status = "healthy" THEN k + 1 ELSE Len(services)

\* `for (const service of this.services)`: the adapter visited after the one
\* at index k, whose entry e has been stored.
StatusNext(k, e) == k + 1

\* Variant: an adapter found not healthy is marked as not configured.
RegistryMarkDown(k, e) ==
    IF e.status = "healthy" THEN services
    ELSE [services EXCEPT ![k + 1].cfgKey = FALSE]

\* this.services after the check of the adapter at index k: validateServices
\* assigns no field of the manager or of an adapter.
RegistryAfterCheck(k, e) == services

\* results[status.name] = {...} for the adapter at index k after probe p.
StoreEntry(st, k, p) ==
    LET e == StatusEntry(At(k), ValidateConnection(At(k), p))
    IN  [st EXCEPT !.results[GetServiceStatus(At(k)).name] = e,
                   !.written = Append(@, [idx |-> k, probe |-> p, entry |-> e])]

\* The run of the for-of loop from index k up to the next axios.get
\* (pc = "await") or to the return (pc = "done").
RECURSIVE StatusLoop(_, _)
StatusLoop(k, st) ==
    IF k >= Len(services) THEN [st EXCEPT !.pc = "done", !.k = k]
    ELSE IF NeedsProbe(At(k))
         THEN [st EXCEPT !.pc = "await", !.k = k, !.gets = Append(@, k)]
         ELSE LET st1 == StoreEntry(st, k, NoProbe)
              IN  StatusLoop(StatusNext(k, st1.written[Len(st1.written)].entry), st1)

\* `const results = {}`: the locals of a validateServices call not begun yet.
StatusRunInit ==
    [pc |-> "idle", k |-> 0, gets |-> <<>>,
     results |-> [n \in ServiceNames |-> NoEntry], written |-> <<>>]

\* validateServices called: runs to the first axios.get or to the return.
StatusBegin ==
    /\ statusRun.pc = "idle"
    /\ statusRun' = StatusLoop(0, statusRun)
    /\ UNCHANGED <<summaryVars, adapterCall, restVars>>

\* The axios.get of the adapter being checked settles: its entry is stored
\* and the loop goes on.
StatusProbeResult(p) ==
    /\ statusRun.pc = "await"
    /\ LET k == statusRun.k
           st1 == StoreEntry(statusRun, k, p)
           e == st1.written[Len(st1.written)].entry
       IN  /\ statusRun' = StatusLoop(StatusNext(k, e), st1)
           /\ services' = RegistryAfterCheck(k, e)
    /\ UNCHANGED <<currentServiceIndex, pc, request, i, lastError, attempts,
                   failed, posts, inflight, result, error, adapterCall, restVars>>

\* One generateSummary call and one validateServices call on the manager.
InitStatus ==
    /\ ManagerInit
    /\ request = [transcript |-> "hello", instructions |-> ""]
    /\ adapterCall = NoAdapterCall
    /\ statusRun = StatusRunInit
    /\ RestIdle

NextStatus ==
    \/ /\ \/ CallEmptyRegistry(1)
          \/ CallBegin(1)
          \/ \E r \in Responses : RespondSuccess(1, r)
          \/ \E r \in Responses : RespondFailure(1, r)
       /\ UNCHANGED <<adapterCall, statusRun, restVars>>
    \/ StatusBegin
    \/ \E p \in ProbeResponses : StatusProbeResult(p)

SpecStatus == InitStatus /\ [][NextStatus]_vars

\* ------------------------------------------------------- derived notions
Range(s) == {s[n] : n \in 1..Len(s)}

Indices == [n \in 1..Len(services) |-> n - 1]

IsConfigured(k) == GetServiceStatus(At(k)).configured

\* The configured adapters' indices, in registry order.
ConfiguredIndices == SelectSeq(Indices, IsConfigured)

\* Indices whose summarize call of call c has succeeded.
Succeeded(c) == (Range(attempts[c]) \ Range(failed[c])) \ inflight[c]

Done(c) == pc[c] \in {"returned", "thrown"}

RecoverableKinds ==
    {"Timeout", "RateLimited", "InvalidCredentials", "ProviderUnavailable",
     "ProviderError"}

TerminalKinds == {"AllProvidersFailed", "NoProvidersConfigured"}

\* The per-provider failures a rejected call's Error carries to the caller.
FailuresCarried(e) == IF e.lastError = NoError THEN <<>> ELSE <<e.lastError>>

TypeOK ==
    /\ Len(services) <= MaxServices
    /\ \A n \in 1..Len(services) : services[n] \in Adapters
    /\ currentServiceIndex \in 0..MaxServices
    /\ pc \in [Calls -> {"idle", "await", "returned", "thrown"}]
    /\ \A c \in Calls :
        /\ i[c] \in 0..Len(services)
        /\ Range(attempts[c]) \subseteq 0..(Len(services) - 1)
        /\ Range(failed[c]) \subseteq Range(attempts[c])
        /\ Range(posts[c]) \subseteq Range(attempts[c])
        /\ inflight[c] \subseteq Range(posts[c])

\* ------------------------------------------------------------ HTTP layer
\* The route handlers (routes/services.js, routes/share.js) keep their data
\* in global Maps.  A handler runs synchronously up to an `await`; the model
\* has one action per such segment.  Objects and arrays are kept on a heap
\* (objects, arrays) because handlers hold references to them across awaits.

\* A 2xx completion whose choices[0].message.content is null.
NullContent == "<null>"
ApiResponses == Responses \cup {[type |-> "ok", content |-> NullContent]}

\* One file and one summary are stored at most: POST /upload is accepted
\* once, and there is one POST /summarize request.
FileIds == {1}
SummaryIds == {1}
ShareIds == 1..MaxShares
\* An id no store holds.
UnknownId == 9

NoFile == [content |-> "<none>"]
NoShare == [status |-> "<none>"]
NoResponse == [status |-> 0, error |-> "<none>"]

\* An Error's message as the sequence of its parts; the phrases the routes
\* search for with String.includes are parts of their own.
AdapterMessage(le) ==
    LET name == At(le.idx).name
    IN  CASE le.kind = "Timeout" -> <<name, "service", "timeout", "- please try again">>
          [] le.kind = "InvalidCredentials" -> <<"Invalid", name, "API key">>
          [] le.kind = "RateLimited" ->
                <<name, "rate limit", "exceeded - please try again later">>
          [] le.kind = "ProviderUnavailable" -> <<name, "service temporarily unavailable">>
          [] le.kind = "KeyNotConfigured" -> <<name, "API key", "not configured">>
          [] OTHER -> <<name, "service error:", "<provider's text>">>

\* The message of the Error generateSummary rejects with.
ErrorMessage(e) ==
    IF e.kind = "NoProvidersConfigured" THEN <<"No AI services configured">>
    ELSE <<"All AI services failed", ". Last error:">>
         \o (IF e.lastError = NoError THEN <<"Unknown error">>
             ELSE AdapterMessage(e.lastError))

\* `summaryResult.content.split(...)` on a null content.
TypeErrorMessage == <<"Cannot read properties of null (reading 'split')">>

Includes(msg, phrase) == \E n \in 1..Len(msg) : msg[n] = phrase

\* The catch block of POST /summarize: the response for a caught Error.
SummarizeErrorResponse(msg) ==
    IF Includes(msg, "timeout") THEN [status |-> 408, error |-> "Request timeout"]
    ELSE IF Includes(msg, "rate limit") THEN [status |-> 429, error |-> "Rate limit exceeded"]
    ELSE IF Includes(msg, "API key") THEN [status |-> 503, error |-> "Service unavailable"]
    ELSE IF Includes(msg, "All AI services failed")
    THEN [status |-> 503, error |-> "Service unavailable"]
    ELSE [status |-> 500, error |-> "Summary generation failed"]

\* The bodies POST /summarize is sent: a transcript (absent, empty, blank,
\* longer than the limit, or the one the manager is called with) and a fileId
\* (0 when absent).
SummarizeBodies ==
    [transcript : {"<absent>", "", " ", "<long>"} \cup Transcripts,
     fileId : {0, UnknownId} \cup FileIds]

\* maxLength of POST /summarize.
MaxTranscriptLength == 50000

TranscriptLength(t) == IF t = "<long>" THEN MaxTranscriptLength + 1 ELSE 5

Falsy(t) == t \in {"<absent>", ""}
Blank(t) == t \in {"", " "}

HasFile(h, f) == f \in FileIds /\ h.files[f] # NoFile

\* The file ids a client can send: one a response gave it (ids are uuids),
\* or one that no store holds.
CanNameFile(h, f) == f = UnknownId \/ f = 0 \/ HasFile(h, f)

\* validateSummarizeRequest and the checks of the handler that precede the
\* call of generateSummary: the response that ends the request, or NoResponse.
SummarizeRejection(h, b) ==
    IF Falsy(b.transcript) /\ b.fileId = 0
    THEN [status |-> 400, error |-> "Missing content"]
    ELSE IF b.fileId # 0 /\ ~HasFile(h, b.fileId)
    THEN [status |-> 404, error |-> "File not found"]
    ELSE LET content == IF b.fileId # 0 THEN h.files[b.fileId].content
                        ELSE b.transcript
         IN  IF Blank(content) THEN [status |-> 400, error |-> "Empty transcript"]
             ELSE IF TranscriptLength(content) > MaxTranscriptLength
             THEN [status |-> 400, error |-> "Transcript too long"]
             ELSE NoResponse

\* The summary object POST /summarize stores.
NewSummary(h, id, sourceFile, res, ins) ==
    [id |-> id, content |-> res.content, originalContent |-> res.content,
     instructions |-> IF ins = "" THEN "Default summarization instructions" ELSE ins,
     sourceFile |-> sourceFile, createdAt |-> h.now, lastModified |-> h.now,
     aiMetadata |-> [service |-> res.service,
                     attemptedServices |-> res.attemptedServices,
                     successfulService |-> res.successfulService],
     hist |-> 0]

\* The rest of the handler once generateSummary has settled with pc p.
SummarizeFinish(h, p, res, err) ==
    IF p = "thrown"
    THEN [h EXCEPT !.summarize.pc = "done",
                   !.summarize.response = SummarizeErrorResponse(ErrorMessage(err))]
    ELSE LET stored == [h EXCEPT
                          !.objects = Append(@, NewSummary(h, 1, h.summarize.sourceFile, res,
                                                           request.instructions)),
                          !.summaries[1] = Len(h.objects) + 1,
                          !.now = h.now + 1,
                          !.summarize.wrote = TRUE,
                          !.summarize.pc = "done"]
         IN  IF res.content = NullContent
             THEN [stored EXCEPT !.summarize.response =
                                    SummarizeErrorResponse(TypeErrorMessage)]
             ELSE [stored EXCEPT !.summarize.response =
                                    [status |-> 200, error |-> "<none>"]]

\* POST /summarize rejected before generateSummary is called.
SummarizeReject(b) ==
    /\ http.summarize.pc = "idle"
    /\ CanNameFile(http, b.fileId)
    /\ SummarizeRejection(http, b) # NoResponse
    /\ http' = [http EXCEPT !.summarize.pc = "done",
                            !.summarize.response = SummarizeRejection(http, b)]
    /\ UNCHANGED <<summaryVars, adapterCall, statusRun, retryRun, boot, browser>>

\* POST /summarize accepted: the handler calls generateSummary, which runs
\* to its first axios.post or throws at once.
SummarizeBegin(b) ==
    /\ http.summarize.pc = "idle"
    /\ CanNameFile(http, b.fileId)
    /\ SummarizeRejection(http, b) = NoResponse
    /\ CallEmptyRegistry(1) \/ CallBegin(1)
    /\ http' = LET h == [http EXCEPT !.summarize.sourceFile = b.fileId]
               IN  IF pc'[1] = "await" THEN [h EXCEPT !.summarize.pc = "await"]
                   ELSE SummarizeFinish(h, pc'[1], result'[1], error'[1])
    /\ UNCHANGED <<adapterCall, statusRun, retryRun, boot, browser>>

\* The provider answers the request's outstanding axios.post.
SummarizeSettle(r) ==
    /\ http.summarize.pc = "await"
    /\ RespondSuccess(1, r) \/ RespondFailure(1, r)
    /\ http' = IF pc'[1] = "await" THEN [http EXCEPT !.summarize.pc = "await"]
               ELSE SummarizeFinish(http, pc'[1], result'[1], error'[1])
    /\ UNCHANGED <<adapterCall, statusRun, retryRun, boot, browser>>

\* The browser gives the request up (APIClient.request aborts its fetch when
\* its timeout fires) while the handler awaits generateSummary.  The handler
\* does not observe it.
ClientAbort ==
    /\ http.summarize.pc = "await"
    /\ ~http.summarize.aborted
    /\ http' = [http EXCEPT !.summarize.aborted = TRUE]
    /\ UNCHANGED <<summaryVars, adapterCall, statusRun, retryRun, boot, browser>>

\* ------------------------------------------------- upload, update, share
\* The files POST /upload is sent: none, an empty or blank one, one multer
\* refuses (size, extension), or a transcript.
UploadFiles == {"<absent>", "", " ", "<too large>", "<bad type>"} \cup Transcripts

\* multer's limits and fileFilter, then the handler's checks.
UploadRejection(f) ==
    IF f = "<too large>" THEN [status |-> 413, error |-> "File too large"]
    ELSE IF f = "<bad type>" THEN [status |-> 400, error |-> "Invalid file type"]
    ELSE IF f = "<absent>" THEN [status |-> 400, error |-> "No file uploaded"]
    ELSE IF Blank(f) THEN [status |-> 400, error |-> "Empty file"]
    ELSE NoResponse

\* uuidv4(): an id not in use.
FreshFileId(h) == CHOOSE f \in FileIds : h.files[f] = NoFile

\* POST /upload, a synchronous handler.
Upload(f) ==
    /\ http.pc = "serving"
    /\ \E g \in FileIds : http.files[g] = NoFile
    /\ http' = IF UploadRejection(f) # NoResponse
               THEN [http EXCEPT !.last = [route |-> "upload", wrote |-> FALSE,
                                           response |-> UploadRejection(f)]]
               ELSE [http EXCEPT !.files[FreshFileId(http)] = [content |-> f],
                                 !.last = [route |-> "upload", wrote |-> TRUE,
                                           response |-> [status |-> 200,
                                                         error |-> "<none>"]]]
    /\ UNCHANGED <<summaryVars, adapterCall, statusRun, retryRun, boot, browser>>

\* The contents PUT /summary/:id is sent, and String.trim on them.
PutContents == {"<absent>", "", " ", "E", " E ", "<long>"}
TrimContent(c) == IF c = " " THEN "" ELSE IF c = " E " THEN "E" ELSE c

\* maxLength of PUT /summary/:id.
MaxSummaryLength == 20000
ContentLength(c) == IF c = "<long>" THEN MaxSummaryLength + 1 ELSE 3

HasSummary(h, id) == id \in SummaryIds /\ h.summaries[id] # 0
\* global.summaries.get(id): a reference to the stored object.
SummaryRef(h, id) == h.summaries[id]

PutRejection(h, id, c) ==
    IF ~HasSummary(h, id) THEN [status |-> 404, error |-> "Summary not found"]
    ELSE IF Falsy(c) THEN [status |-> 400, error |-> "Invalid content"]
    ELSE IF TrimContent(c) = "" THEN [status |-> 400, error |-> "Empty content"]
    ELSE IF ContentLength(c) > MaxSummaryLength
    THEN [status |-> 400, error |-> "Content too long"]
    ELSE NoResponse

\* Variant: the edit becomes the new baseline.
UpdatedSummaryRebase(o, c, t) ==
    [o EXCEPT !.content = TrimContent(c), !.originalContent = TrimContent(c),
              !.lastModified = t]

\* `{ ...existingSummary, content: content.trim(), lastModified: ... }`: a new
\* object; shareHistory, when present, is the same array.
UpdatedSummary(o, c, t) ==
    [o EXCEPT !.content = TrimContent(c), !.lastModified = t]

\* The ids a client can send: one a response gave it (ids are uuids), or
\* one that no store holds.
CanName(h, id) ==
    \/ id = UnknownId
    \/ id = 0
    \/ HasSummary(h, id) /\ h.summarize.response.status = 200

\* PUT /summary/:id, a synchronous handler.
Put(id, c) ==
    /\ http.pc = "serving"
    /\ CanName(http, id)
    /\ http.puts < MaxPuts
    /\ http' = IF PutRejection(http, id, c) # NoResponse
               THEN [http EXCEPT !.puts = @ + 1,
                                 !.last = [route |-> "put", wrote |-> FALSE,
                                           response |-> PutRejection(http, id, c)]]
               ELSE [http EXCEPT
                       !.puts = @ + 1,
                       !.objects = Append(@, UpdatedSummary(
                                       http.objects[SummaryRef(http, id)], c, http.now)),
                       !.summaries[id] = Len(http.objects) + 1,
                       !.now = @ + 1,
                       !.last = [route |-> "put", wrote |-> TRUE,
                                 response |-> [status |-> 200, error |-> "<none>"]]]
    /\ UNCHANGED <<summaryVars, adapterCall, statusRun, retryRun, boot, browser>>

\* The limit of validateShareRequest and the default of EMAIL_MAX_RECIPIENTS.
RouteMaxRecipients == 50
DefaultMaxRecipients == 10
MaxSubjectLength == 200

\* Sizes of the recipients array a share request carries.
RecipientCounts ==
    {1, DefaultMaxRecipients + 1, RouteMaxRecipients, RouteMaxRecipients + 1}

\* What a share request carries: summaryId (0: absent), the number of
\* recipients (-1: not an array), whether they are all well-formed and
\* distinct, the subject.  The bodies are the complete ones and, for each
\* field, one body in which only that field is missing or out of range.
ShareBodies ==
    [summaryId : SummaryIds, n : RecipientCounts, valid : {TRUE}, subject : {"S"}]
    \cup [summaryId : SummaryIds, n : {1}, valid : {FALSE}, subject : {"S"}]
    \cup [summaryId : {0, UnknownId}, n : {1}, valid : {TRUE}, subject : {"S"}]
    \cup [summaryId : SummaryIds, n : {-1, 0}, valid : {TRUE}, subject : {"S"}]
    \cup [summaryId : SummaryIds, n : {1}, valid : {TRUE},
          subject : {"<absent>", "<long>"}]

SubjectLength(t) == IF t = "<long>" THEN MaxSubjectLength + 1 ELSE 1

\* validateShareRequest.
ShareRejection(h, b) ==
    IF b.summaryId = 0 THEN [status |-> 400, error |-> "Invalid summary ID"]
    ELSE IF ~HasSummary(h, b.summaryId) THEN [status |-> 404, error |-> "Summary not found"]
    ELSE IF b.n = -1 THEN [status |-> 400, error |-> "Invalid recipients"]
    ELSE IF b.n = 0 THEN [status |-> 400, error |-> "No recipients"]
    ELSE IF b.n > RouteMaxRecipients THEN [status |-> 400, error |-> "Too many recipients"]
    ELSE IF b.subject # "<absent>" /\ SubjectLength(b.subject) > MaxSubjectLength
    THEN [status |-> 400, error |-> "Subject too long"]
    ELSE NoResponse

\* EmailService.validateEmails: the errors it reports.
ValidateEmails(e, b) ==
    IF b.n > e.maxRecipients THEN {"Too many recipients"}
    ELSE IF ~b.valid THEN {"Invalid email format"}
    ELSE {}

\* The handler from `const summaryData = global.summaries.get(summaryId)` to
\* the `await this.transporter.sendMail(...)` inside sendSummaryEmail, or to
\* the response when sendSummaryEmail throws before it.
ShareProceed(h) ==
    LET b == h.share.body
        held == [h EXCEPT !.share.data = SummaryRef(h, b.summaryId)]
    IN  IF ~h.email.initialized
        THEN [held EXCEPT !.share.pc = "done",
                          !.share.response =
                              [status |-> 500, error |-> "Sharing failed"]]
        ELSE IF ValidateEmails(h.email, b) # {}
        THEN [held EXCEPT !.share.pc = "done",
                          !.share.response =
                              [status |-> 400, error |-> "Invalid email addresses"]]
        ELSE [held EXCEPT !.share.pc = "sending"]

\* A share request no handler has seen yet.
NewShare(id, b) ==
    [pc |-> "idle", id |-> id, body |-> b, data |-> 0, wrote |-> FALSE,
     response |-> NoResponse]

\* POST /share arrives (the client sends one share request at a time):
\* validation, then either the await of emailService.initialize() or the
\* handler up to sendMail.
ShareBegin(b) ==
    /\ http.pc = "serving"
    /\ http.share.pc \in {"idle", "done"}
    /\ http.shareCount < MaxShares
    /\ CanName(http, b.summaryId)
    /\ LET h == [http EXCEPT !.share = NewShare(http.shareCount + 1, b),
                             !.shareCount = @ + 1]
       IN  http' = IF ShareRejection(http, b) # NoResponse
                   THEN [h EXCEPT !.share.pc = "done",
                                  !.share.response = ShareRejection(http, b)]
                   ELSE IF ~http.email.initialized
                   THEN [h EXCEPT !.share.pc = "verifying"]
                   ELSE ShareProceed(h)
    /\ UNCHANGED <<summaryVars, adapterCall, statusRun, retryRun, boot, browser>>

\* transporter.verify() of the initialize() the handler awaits settles.
ShareVerified(ok) ==
    /\ http.pc = "serving"
    /\ http.share.pc = "verifying"
    /\ LET h == [http EXCEPT !.email.initialized = ok]
       IN  http' = IF ok THEN ShareProceed(h)
                   ELSE [h EXCEPT !.share.pc = "done",
                                  !.share.response =
                                      [status |-> 503,
                                       error |-> "Email service unavailable"]]
    /\ UNCHANGED <<summaryVars, adapterCall, statusRun, retryRun, boot, browser>>

\* The object `summaryData.shareHistory.push(...)` writes to: the one the
\* handler got from the Map before sendSummaryEmail.
HistoryTarget(h) == h.share.data

\* `summaryData.shareHistory = summaryData.shareHistory || []` and the push.
PushHistory(h, ref, entry) ==
    IF h.objects[ref].hist = 0
    THEN [h EXCEPT !.arrays = Append(@, <<entry>>),
                   !.objects[ref].hist = Len(h.arrays) + 1]
    ELSE [h EXCEPT !.arrays[h.objects[ref].hist] = Append(@, entry)]

\* sendMail settles: the record is stored and the history extended, or the
\* catch block answers 503.
ShareSent(ok) ==
    /\ http.pc = "serving"
    /\ http.share.pc = "sending"
    /\ http' =
         IF ~ok
         THEN [http EXCEPT !.share.pc = "done",
                           !.share.response =
                               [status |-> 503, error |-> "Email delivery failed"]]
         ELSE LET b == http.share.body
                  id == http.share.id
                  rec == [id |-> id, summaryId |-> b.summaryId, recipients |-> b.n,
                          sentAt |-> http.now, status |-> "sent"]
                  stored == [http EXCEPT !.shareRecords[id] = rec,
                                         !.now = @ + 1,
                                         !.share.pc = "done",
                                         !.share.wrote = TRUE,
                                         !.share.response =
                                             [status |-> 200, error |-> "<none>"]]
              IN  PushHistory(stored, HistoryTarget(http),
                              [shareId |-> id, recipients |-> b.n,
                               sentAt |-> http.now])
    /\ UNCHANGED <<summaryVars, adapterCall, statusRun, retryRun, boot, browser>>

\* ------------------------------------------------------------------ startup
\* server.js validates the environment (config/envValidation.js), exits when
\* a variable is in error, and otherwise builds the registry from the
\* validated configuration before it serves requests.

\* Values of an API key variable: unset, empty, set but not matching the
\* schema's pattern and minLength, or well-formed.
KeyValues == {"<unset>", "", "malformed", "valid"}

\* The environment: the two API keys, EMAIL_MAX_RECIPIENTS (0: unset) and
\* whether every other variable passes its schema entry.
Envs ==
    [GROQ_API_KEY : KeyValues, OPENAI_API_KEY : KeyValues,
     EMAIL_MAX_RECIPIENTS : {0, RouteMaxRecipients}, restOk : BOOLEAN]

Missing(v) == v \in {"<unset>", ""}

\* Variant: a missing required variable is let through.
ValidateVariableLenient(v, required) ==
    IF Missing(v) THEN [error |-> FALSE, value |-> "<undefined>"]
    ELSE IF v # "valid" THEN [error |-> TRUE, value |-> "<undefined>"]
    ELSE [error |-> FALSE, value |-> v]

\* EnvironmentValidator.validateVariable for a string variable without
\* default: whether it throws, and the config entry it sets.
ValidateVariable(v, required) ==
    IF required /\ Missing(v) THEN [error |-> TRUE, value |-> "<undefined>"]
    ELSE IF Missing(v) THEN [error |-> FALSE, value |-> "<undefined>"]
    ELSE IF v # "valid" THEN [error |-> TRUE, value |-> "<undefined>"]
    ELSE [error |-> FALSE, value |-> v]

\* EnvironmentValidator.validate: ok is false when it throws.
Validate(env) ==
    LET g == ValidateVariable(env.GROQ_API_KEY, TRUE)
        o == ValidateVariable(env.OPENAI_API_KEY, FALSE)
    IN  [ok |-> ~g.error /\ ~o.error /\ env.restOk,
         config |-> [GROQ_API_KEY |-> g.value, OPENAI_API_KEY |-> o.value,
                     EMAIL_MAX_RECIPIENTS |->
                         IF env.EMAIL_MAX_RECIPIENTS = 0 THEN DefaultMaxRecipients
                         ELSE env.EMAIL_MAX_RECIPIENTS]]

\* getServiceConfig('ai').
GetServiceConfig(config) ==
    [groq |-> [apiKey |-> config.GROQ_API_KEY],
     openai |-> [apiKey |-> config.OPENAI_API_KEY]]

\* new GroqService(cfg) / new OpenAIService(cfg) with envKey in process.env.
NewAdapter(name, cfg, envKey) ==
    [name |-> name,
     cfgKey |-> cfg.apiKey \notin {"<undefined>", ""},
     hasApiKey |-> cfg.apiKey \notin {"<undefined>", ""} \/ ~Missing(envKey)]

\* `aiServiceManager.services = []; aiServiceManager.initializeServices()`.
InitializeServices(config, env) ==
    <<NewAdapter("Groq", GetServiceConfig(config).groq, env.GROQ_API_KEY),
      NewAdapter("OpenAI", GetServiceConfig(config).openai, env.OPENAI_API_KEY)>>

\* validateEnv() at the top of server.js: process.exit(1) when it throws.
BootValidate ==
    /\ boot.pc = "start"
    /\ boot' = IF Validate(boot.env).ok
               THEN [boot EXCEPT !.pc = "validated", !.config = Validate(boot.env).config]
               ELSE [boot EXCEPT !.pc = "exited"]
    /\ UNCHANGED <<summaryVars, adapterCall, statusRun, http, retryRun, browser>>

\* The service initialisation block of server.js.
BootInitServices ==
    /\ boot.pc = "validated"
    /\ services' = InitializeServices(boot.config, boot.env)
    /\ boot' = [boot EXCEPT !.pc = "listening"]
    /\ UNCHANGED <<currentServiceIndex, pc, request, i, lastError, attempts,
                   failed, posts, inflight, result, error, adapterCall,
                   statusRun, http, retryRun, browser>>

NoConfig ==
    [GROQ_API_KEY |-> "<undefined>", OPENAI_API_KEY |-> "<undefined>",
     EMAIL_MAX_RECIPIENTS |-> DefaultMaxRecipients]

\* The process at its start: no manager yet, the environment as given.
InitStartup ==
    /\ ManagerInit
    /\ services = <<>>
    /\ adapterCall = NoAdapterCall
    /\ statusRun = NoStatusRun
    /\ http = NotRunning
    /\ retryRun = NotRunning
    /\ browser = NotRunning
    /\ boot \in [pc : {"start"}, env : Envs, config : {NoConfig}]

\* Startup, then generateSummary calls once the server listens.
NextStartup ==
    \/ BootValidate
    \/ BootInitServices
    \/ /\ boot.pc = "listening"
       /\ \E c \in Calls :
            \/ CallEmptyRegistry(c)
            \/ CallBegin(c)
            \/ \E r \in Responses : RespondSuccess(c, r)
            \/ \E r \in Responses : RespondFailure(c, r)
       /\ UNCHANGED <<adapterCall, statusRun, restVars>>

SpecStartup == InitStartup /\ [][NextStartup]_vars

\* The registries and email settings a started server can have.
StartedEnvs == {e \in Envs : Validate(e).ok}

\* ------------------------------------------------- the routes' specifications
HttpInit(maxRecipients, initialized) ==
    [pc |-> "serving",
     files |-> [f \in FileIds |-> NoFile],
     summaries |-> [m \in SummaryIds |-> 0],
     objects |-> <<>>,
     arrays |-> <<>>,
     shareRecords |-> [k \in ShareIds |-> NoShare],
     now |-> 0,
     email |-> [initialized |-> initialized, maxRecipients |-> maxRecipients],
     puts |-> 0,
     last |-> [route |-> "<none>", wrote |-> FALSE, response |-> NoResponse],
     summarize |-> [pc |-> "idle", sourceFile |-> 0,
                    aborted |-> FALSE, wrote |-> FALSE, response |-> NoResponse],
     shareCount |-> 0,
     share |-> NewShare(0, [summaryId |-> 0, n |-> -1, valid |-> FALSE,
                            subject |-> "<absent>"])]

\* POST /upload and POST /summarize on a manager with any registry (the tests
\* build their own), with a client that may give the request up.
InitSummarize ==
    /\ ManagerInit
    /\ adapterCall = NoAdapterCall
    /\ statusRun = NoStatusRun
    /\ retryRun = NotRunning
    /\ boot = NotRunning
    /\ browser = NotRunning
    /\ http = HttpInit(DefaultMaxRecipients, TRUE)

NextSummarize ==
    \/ \E f \in UploadFiles : Upload(f)
    \/ \E b \in SummarizeBodies : SummarizeReject(b)
    \/ \E b \in SummarizeBodies : SummarizeBegin(b)
    \/ \E r \in ApiResponses : SummarizeSettle(r)
    \/ ClientAbort

SpecSummarize == InitSummarize /\ [][NextSummarize]_vars

\* The four routes of a started server, whose registry and email settings
\* come from a validated environment.
InitApi ==
    /\ ManagerInit
    /\ adapterCall = NoAdapterCall
    /\ statusRun = NoStatusRun
    /\ retryRun = NotRunning
    /\ boot = NotRunning
    /\ browser = NotRunning
    /\ \E e \in StartedEnvs :
         /\ services = InitializeServices(Validate(e).config, e)
         /\ \E up \in BOOLEAN :
              http = HttpInit(Validate(e).config.EMAIL_MAX_RECIPIENTS, up)

NextApi ==
    \/ \E f \in UploadFiles : Upload(f)
    \/ \E b \in SummarizeBodies : SummarizeReject(b)
    \/ \E b \in SummarizeBodies : SummarizeBegin(b)
    \/ \E r \in ApiResponses : SummarizeSettle(r)
    \/ \E id \in SummaryIds \cup {UnknownId}, c \in PutContents : Put(id, c)
    \/ \E b \in ShareBodies : ShareBegin(b)
    \/ \E ok \in BOOLEAN : ShareVerified(ok)
    \/ \E ok \in BOOLEAN : ShareSent(ok)

SpecApi == InitApi /\ [][NextApi]_vars

\* ------------------------------------------------------------- the browser
\* frontend/script.js: APIUtils.retryCall wraps one API call; the step
\* handlers move appState through the four steps of the workflow.

\* Largest maxRetries a retryCall is made with.
MaxRetries == 2

\* How an invocation of apiCall settles: it resolves, rejects with an
\* APIError (APIClient.request gives status 0 to a network error and 408 to
\* its own timeout), or rejects with another Error.
ApiStatuses == {0, 400, 408, 429, 500, 502, 503, 504}
CallOutcomes ==
    {[type |-> "ok", status |-> 200], [type |-> "other", status |-> 0]}
    \cup [type : {"api"}, status : ApiStatuses]

\* Variant: every APIError with an HTTP error status is retried.
IsRetryableAnyStatus(status) == status >= 400

\* APIError.isRetryable.
IsRetryable(status) == status \in {408, 429, 500, 502, 503, 504}

\* The test of retryCall's catch block: whether the error is rethrown.
Rethrows(run, o) ==
    \/ run.attempt = run.maxRetries
    \/ o.type # "api"
    \/ ~IsRetryable(o.status)

\* retryCall is called: the loop's first `await apiCall()`.
RetryBegin(m) ==
    /\ retryRun.pc = "none"
    /\ retryRun' = [pc |-> "calling", maxRetries |-> m, attempt |-> 0,
                    outcomes |-> <<>>, calls |-> 1, delay |-> 0]
    /\ UNCHANGED <<summaryVars, adapterCall, statusRun, http, boot, browser>>

\* The awaited apiCall() settles: return, rethrow, or wait
\* baseDelay * 2^attempt.
RetrySettle(o) ==
    /\ retryRun.pc = "calling"
    /\ retryRun' =
         LET seen == [retryRun EXCEPT !.outcomes = Append(@, o)]
         IN  IF o.type = "ok" THEN [seen EXCEPT !.pc = "returned"]
             ELSE IF Rethrows(retryRun, o) THEN [seen EXCEPT !.pc = "thrown"]
             ELSE [seen EXCEPT !.pc = "waiting", !.delay = 2 ^ retryRun.attempt]
    /\ UNCHANGED <<summaryVars, adapterCall, statusRun, http, boot, browser>>

\* The delay's timer fires: the next iteration's `await apiCall()`.
RetryAgain ==
    /\ retryRun.pc = "waiting"
    /\ retryRun' = [retryRun EXCEPT !.pc = "calling", !.attempt = @ + 1,
                                    !.calls = @ + 1]
    /\ UNCHANGED <<summaryVars, adapterCall, statusRun, http, boot, browser>>

InitRetry ==
    /\ ManagerInit
    /\ services = <<>>
    /\ adapterCall = NoAdapterCall
    /\ statusRun = NoStatusRun
    /\ http = NotRunning
    /\ boot = NotRunning
    /\ browser = NotRunning
    /\ retryRun = NotRunning

NextRetry ==
    \/ \E m \in 0..MaxRetries : RetryBegin(m)
    \/ \E o \in CallOutcomes : RetrySettle(o)
    \/ RetryAgain

SpecRetry == InitRetry /\ [][NextRetry]_vars

\* The workflow: appState, and of the DOM the instructions textarea, the
\* three continue buttons' `disabled`, the pending file-preview timer and
\* whether requests are in flight.  A section's controls can be used while
\* it is the active one (navigateToStep).

\* `let appState = {...}`.
InitialAppState ==
    [currentStep |-> 1, fileId |-> 0, transcriptContent |-> "",
     customInstructions |-> "", generatedSummary |-> "", summaryId |-> 0]

\* The controls as resetAllForms leaves them: textarea empty, continue
\* buttons disabled.
ResetControls ==
    [textarea |-> "", toInstructionsDisabled |-> TRUE,
     toSummaryDisabled |-> TRUE, toEditDisabled |-> TRUE]

LoadedBrowser ==
    [pc |-> "loaded", appState |-> InitialAppState, dom |-> ResetControls,
     uploading |-> FALSE, previewTimer |-> FALSE, generating |-> FALSE]

\* What the user types into the textarea, and the templates' texts.
TypedInstructions == {"", "hey", "hello"}
Templates == {"executive", "custom"}
TemplateContent(t) == IF t = "executive" THEN "<executive template>" ELSE ""

\* VALIDATION_CONFIG.instructions.minLength.
MinInstructionsLength == 5
InstructionsLength(v) ==
    IF v = "" THEN 0 ELSE IF v = "hey" THEN 3 ELSE MinInstructionsLength

\* ValidationUtils.validateInstructions on a trimmed value without forbidden
\* patterns: an empty value is valid and has no `sanitized`.
ValidateInstructions(v) ==
    IF v = "" THEN [valid |-> TRUE, sanitized |-> ""]
    ELSE [valid |-> InstructionsLength(v) >= MinInstructionsLength, sanitized |-> v]

\* StateManager.validateStateForStep.
ValidateStateForStep(a, step) ==
    CASE step = 1 -> TRUE
      [] step = 2 -> a.transcriptContent # "" \/ a.fileId # 0
      [] step = 3 -> /\ a.transcriptContent # "" \/ a.fileId # 0
                     /\ a.customInstructions # ""
      [] step = 4 -> a.generatedSummary # "" /\ a.summaryId # 0
      [] OTHER -> FALSE

\* navigateToStep.
NavigateToStep(b, step) == [b EXCEPT !.appState.currentStep = step]

BrowserFrame == UNCHANGED <<summaryVars, adapterCall, statusRun, http, retryRun, boot>>

\* handleFileSelect: a file is chosen in the upload section.
SelectFile ==
    /\ browser.pc = "loaded"
    /\ browser.appState.currentStep = 1
    /\ ~browser.uploading
    /\ browser' = [browser EXCEPT !.uploading = TRUE]
    /\ BrowserFrame

\* The upload's retryCall settles: on success the state is stored and the
\* preview timer set; on failure only a message is shown.
UploadSettles(ok) ==
    /\ browser.pc = "loaded"
    /\ browser.uploading
    /\ browser' = IF ok
                  THEN [browser EXCEPT !.uploading = FALSE,
                                       !.appState.fileId = 1,
                                       !.appState.transcriptContent = "T",
                                       !.previewTimer = TRUE]
                  ELSE [browser EXCEPT !.uploading = FALSE]
    /\ BrowserFrame

\* The 500 ms timer: showFilePreview enables continue-to-instructions.
PreviewTimer ==
    /\ browser.pc = "loaded"
    /\ browser.previewTimer
    /\ browser' = [browser EXCEPT !.previewTimer = FALSE,
                                  !.dom.toInstructionsDisabled = FALSE]
    /\ BrowserFrame

\* Click on continue-to-instructions.
ContinueToInstructions ==
    /\ browser.pc = "loaded"
    /\ browser.appState.currentStep = 1
    /\ ~browser.dom.toInstructionsDisabled
    /\ browser' = NavigateToStep(browser, 2)
    /\ BrowserFrame

\* Input in the textarea: updateContinueButton.
TypeInstructions(v) ==
    /\ browser.pc = "loaded"
    /\ browser.appState.currentStep = 2
    /\ browser' = [browser EXCEPT !.dom.textarea = v,
                                  !.dom.toSummaryDisabled = (v = "")]
    /\ BrowserFrame

\* handleTemplateSelection.
SelectTemplate(t) ==
    /\ browser.pc = "loaded"
    /\ browser.appState.currentStep = 2
    /\ browser' = [browser EXCEPT
                     !.dom.textarea = TemplateContent(t),
                     !.appState.customInstructions = TemplateContent(t),
                     !.dom.toSummaryDisabled = (TemplateContent(t) = "")]
    /\ BrowserFrame

\* generateSummary up to its retryCall: it throws, and shows the error, when
\* there is neither transcript nor fileId.
GenerateSummaryBegins(b) ==
    IF b.appState.transcriptContent = "" /\ b.appState.fileId = 0 THEN b
    ELSE [b EXCEPT !.generating = TRUE]

\* Click on continue-to-summary: handleInstructionsContinue, then the
\* listener of initializeSummaryGenerationEnhanced, generateSummary.
ContinueToSummary ==
    /\ browser.pc = "loaded"
    /\ browser.appState.currentStep = 2
    /\ ~browser.dom.toSummaryDisabled
    /\ LET validation == ValidateInstructions(browser.dom.textarea)
           continued ==
               IF ~validation.valid THEN browser
               ELSE NavigateToStep(
                        [browser EXCEPT !.appState.customInstructions =
                                            validation.sanitized], 3)
       IN  browser' = GenerateSummaryBegins(continued)
    /\ BrowserFrame

\* generateSummary's retryCall settles.
GenerationSettles(ok) ==
    /\ browser.pc = "loaded"
    /\ browser.generating
    /\ browser' = IF ok
                  THEN [browser EXCEPT !.generating = FALSE,
                                       !.appState.generatedSummary = "S",
                                       !.appState.summaryId = 1,
                                       !.dom.toEditDisabled = FALSE]
                  ELSE [browser EXCEPT !.generating = FALSE]
    /\ BrowserFrame

\* Click on continue-to-edit.
ContinueToEdit ==
    /\ browser.pc = "loaded"
    /\ browser.appState.currentStep = 3
    /\ ~browser.dom.toEditDisabled
    /\ browser' = NavigateToStep(browser, 4)
    /\ BrowserFrame

\* Click on the active section's back button.
Back ==
    /\ browser.pc = "loaded"
    /\ browser.appState.currentStep > 1
    /\ browser' = NavigateToStep(browser, browser.appState.currentStep - 1)
    /\ BrowserFrame

\* startNewSummary (editing section): the state and the inputs' values are
\* cleared; the buttons are left as they are.
StartNewSummary ==
    /\ browser.pc = "loaded"
    /\ browser.appState.currentStep = 4
    /\ browser' = [browser EXCEPT !.appState = InitialAppState,
                                  !.dom.textarea = ""]
    /\ BrowserFrame

\* clearAllData (the clear-all button): state cleared, resetAllForms.
ClearAllData ==
    /\ browser.pc = "loaded"
    /\ browser' = [browser EXCEPT !.appState = InitialAppState,
                                  !.dom = ResetControls]
    /\ BrowserFrame

InitWorkflow ==
    /\ ManagerInit
    /\ services = <<>>
    /\ adapterCall = NoAdapterCall
    /\ statusRun = NoStatusRun
    /\ http = NotRunning
    /\ retryRun = NotRunning
    /\ boot = NotRunning
    /\ browser = LoadedBrowser

NextWorkflow ==
    \/ SelectFile
    \/ \E ok \in BOOLEAN : UploadSettles(ok)
    \/ PreviewTimer
    \/ ContinueToInstructions
    \/ \E v \in TypedInstructions : TypeInstructions(v)
    \/ \E t \in Templates : SelectTemplate(t)
    \/ ContinueToSummary
    \/ \E ok \in BOOLEAN : GenerationSettles(ok)
    \/ ContinueToEdit
    \/ Back
    \/ StartNewSummary
    \/ ClearAllData

SpecWorkflow == InitWorkflow /\ [][NextWorkflow]_vars

\* ------------------------------------------------------------------ claims

\* C1: if some configured provider's summarize call succeeds, the call
\* returns, and the result's successfulService names the first configured
\* provider, in registry order, that did not fail in this call.
C1_FirstNonFailedProvider ==
    \A c \in Calls :
        (Succeeded(c) # {} \/ pc[c] = "returned") =>
            /\ pc[c] = "returned"
            /\ \E n \in 1..Len(ConfiguredIndices) :
                LET k == ConfiguredIndices[n]
                IN  /\ k \notin Range(failed[c])
                    /\ \A m \in 1..(n - 1) :
                         ConfiguredIndices[m] \in Range(failed[c])
                    /\ result[c].successfulService = At(k).name
                    /\ Succeeded(c) = {k}

\* A call with non-empty transcript and empty instructions returned the
\* second provider's summary after the first one failed.
C1_Witness ==
    \E c \in Calls :
        /\ pc[c] = "returned"
        /\ request.instructions = ""
        /\ request.transcript # ""
        /\ failed[c] = <<0>>
        /\ result[c].successfulService = At(1).name

\* C2: when the first configured provider failed with a recoverable kind
\* and the second configured provider answered successfully, the call has
\* returned (nothing is thrown) with the second provider's name, and the
\* first provider's failure is what the call recorded.
C2_FallbackToSecond ==
    \A c \in Calls :
        (/\ Len(ConfiguredIndices) >= 2
         /\ failed[c] = <<ConfiguredIndices[1]>>) =>
            /\ pc[c] # "thrown"
            /\ error[c] = NoError
            /\ attempts[c] = <<ConfiguredIndices[1], ConfiguredIndices[2]>>
            /\ pc[c] = "await" =>
                 /\ lastError[c].idx = ConfiguredIndices[1]
                 /\ lastError[c].kind \in RecoverableKinds
            /\ inflight[c] = {} =>
                 /\ pc[c] = "returned"
                 /\ result[c].successfulService = At(ConfiguredIndices[2]).name

C2_Witness ==
    \E c \in Calls :
        /\ Len(ConfiguredIndices) = 2
        /\ failed[c] = <<ConfiguredIndices[1]>>
        /\ pc[c] = "returned"
        /\ result[c].successfulService = "OpenAI"

C4_NoProvidersConfigured ==
    \A c \in Calls :
        (pc[c] # "idle" /\ Len(ConfiguredIndices) = 0) =>
            /\ pc[c] = "thrown"
            /\ error[c].kind = "NoProvidersConfigured"
            /\ posts[c] = <<>>

\* C5: each call's attempts are the configured indices in registry order,
\* starting with the first, whatever currentServiceIndex holds and whatever
\* the other calls have done.
C5_StrictRegistryOrder ==
    \A c \in Calls :
        /\ Len(attempts[c]) <= Len(ConfiguredIndices)
        /\ attempts[c] = SubSeq(ConfiguredIndices, 1, Len(attempts[c]))
        /\ posts[c] = attempts[c]
        /\ pc[c] = "await" => i[c] = attempts[c][Len(attempts[c])]

\* A call waits for the provider at index 0 while another call has left the
\* hint currentServiceIndex at 1.
C5_Witness ==
    \E c, d \in Calls :
        /\ c # d
        /\ pc[d] = "returned" /\ currentServiceIndex = 1 /\ i[d] = 1
        /\ pc[c] = "await" /\ i[c] = 0 /\ attempts[c] = <<0>>

\* C6: within one call no provider's summarize is invoked twice, the call
\* issues at most as many requests as there are configured providers, and at
\* most one of its requests is outstanding.
C6_OneAttemptPerProvider ==
    \A c \in Calls :
        /\ Cardinality(Range(attempts[c])) = Len(attempts[c])
        /\ Cardinality(Range(posts[c])) = Len(posts[c])
        /\ Len(posts[c]) <= Len(ConfiguredIndices)
        /\ Cardinality(inflight[c]) <= 1
        /\ Done(c) => inflight[c] = {}

\* A call went through both configured providers, both failing.
C6_Witness ==
    \E c \in Calls :
        /\ Len(ConfiguredIndices) = 2
        /\ posts[c] = <<0, 1>>
        /\ failed[c] = <<0, 1>>
        /\ pc[c] = "thrown"

\* C7: no call invokes summarize on, or sends a request to, an adapter whose
\* status reports configured = false; the loop goes on to the adapters after it.
C7_UnconfiguredSkipped ==
    \A c \in Calls :
        /\ \A k \in Range(attempts[c]) \cup Range(posts[c]) \cup inflight[c] :
             GetServiceStatus(At(k)).configured
        /\ \A k \in 0..(Len(services) - 1) :
             (pc[c] = "await" /\ i[c] > k /\ ~GetServiceStatus(At(k)).configured)
                => k \notin Range(attempts[c])

\* An unconfigured adapter that holds a key from the environment sits at
\* index 0 and the call returned the summary of the adapter at index 1.
C7_Witness ==
    \E c \in Calls :
        /\ Len(services) = 2
        /\ ~GetServiceStatus(At(0)).configured /\ At(0).hasApiKey
        /\ pc[c] = "returned"
        /\ attempts[c] = <<1>>

\* C8 (as stated): on success attemptedServices is the number of adapters
\* whose summarize this call invoked.
C8_AttemptedCountsInvocations ==
    \A c \in Calls :
        pc[c] = "returned" => result[c].attemptedServices = Len(attempts[c])

\* C9 (as stated): a returned result has non-empty content.
C9_NonEmptyContent ==
    \A c \in Calls : pc[c] = "returned" => result[c].content # ""

\* C10: whatever generateSummary throws is AllProvidersFailed or
\* NoProvidersConfigured; a provider's own error is never what is thrown.
C10_OnlyTerminalKinds ==
    \A c \in Calls :
        /\ pc[c] = "thrown" <=> error[c] # NoError
        /\ pc[c] = "thrown" =>
             /\ error[c].kind \in TerminalKinds
             /\ error[c].kind \notin RecoverableKinds \cup {"KeyNotConfigured"}

\* A call was rejected after a provider failed with a timeout.
C10_Witness ==
    \E c \in Calls :
        /\ pc[c] = "thrown"
        /\ error[c].lastError # NoError
        /\ error[c].lastError.kind = "Timeout"
        /\ error[c].kind = "AllProvidersFailed"

\* C11 (as stated): a non-2xx answer's status decides the kind: 401 or 403
\* InvalidCredentials, 429 RateLimited, 5xx ProviderUnavailable, anything
\* else ProviderError carrying the provider's message.
C11_StatusDecidesKind ==
    (adapterCall.pc = "thrown" /\ adapterCall.response.type = "http") =>
        LET st == adapterCall.response.status
            out == adapterCall.outcome
        IN  /\ st \in {401, 403} => out.kind = "InvalidCredentials"
            /\ st = 429 => out.kind = "RateLimited"
            /\ st >= 500 => out.kind = "ProviderUnavailable"
            /\ (st \notin {401, 403, 429} /\ st < 500) =>
                 /\ out.kind = "ProviderError"
                 /\ adapterCall.providerMessage # "" =>
                      out.detail = adapterCall.providerMessage

\* C12 (as stated): a call that got no response, by timeout or by any other
\* I/O failure, fails with Timeout.
C12_NoResponseIsTimeout ==
    (adapterCall.pc = "thrown" /\ adapterCall.response.type = "noresponse") =>
        adapterCall.outcome.kind = "Timeout"

\* C12 (amended): a call that got no response fails with Timeout when the
\* request timed out (axios' ECONNABORTED); any other I/O failure fails with
\* the generic service error that passes the I/O error's message on.
C12_OnlyAbortIsTimeout ==
    (adapterCall.pc = "thrown" /\ adapterCall.response.type = "noresponse") =>
        IF adapterCall.response.code = "ECONNABORTED"
        THEN adapterCall.outcome.kind = "Timeout"
        ELSE /\ adapterCall.outcome.kind = "ProviderError"
             /\ adapterCall.outcome.detail = adapterCall.response.code

\* Calls failed by a timeout and by a refused connection.
C12_Witness ==
    /\ adapterCall.pc = "thrown"
    /\ adapterCall.response.type = "noresponse"
    /\ adapterCall.response.code = "ECONNABORTED"
    /\ adapterCall.posted # <<>>

\* C13 (as stated): a transcript that is empty after trimming is rejected
\* locally, before any request is issued.
C13_EmptyTranscriptRejected ==
    (adapterCall.pc # "idle" /\ Trim(adapterCall.transcript) = <<>>) =>
        /\ adapterCall.posted = <<>>
        /\ adapterCall.pc = "thrown"

\* C14 (as stated): an adapter's status reports configured = true exactly
\* when the credential it holds and sends is non-empty.
C14_ConfiguredIffCredential ==
    adapterCall.pc \notin {"none", "idle"} =>
        (GetServiceStatus(adapterCall.svc).configured <=> adapterCall.svc.hasApiKey)

Reported == {n \in ServiceNames : statusRun.results[n] # NoEntry}

\* C16 (as stated): the report has exactly one entry per registered adapter
\* and no request is issued for an unconfigured adapter.
C16_OneEntryPerAdapter ==
    statusRun.pc = "done" =>
        /\ Cardinality(Reported) = Len(services)
        /\ \A k \in Range(statusRun.gets) : GetServiceStatus(At(k)).configured

\* C17 (as stated): every adapter with configured = false is reported with
\* status 'unconfigured'.
C17_ReportedUnconfigured ==
    statusRun.pc = "done" =>
        \A k \in 0..(Len(services) - 1) :
            ~GetServiceStatus(At(k)).configured =>
                statusRun.results[GetServiceStatus(At(k)).name].status = "unconfigured"

\* C17 (amended): the entry stored for an adapter with configured = false
\* has configured = false and never the status 'unconfigured': without a key
\* it is 'unavailable', not connected, and no request was issued for it; with
\* a key from the environment it is 'healthy' exactly when its check got 200.
C17_ReportedUnavailable ==
    \A n \in 1..Len(statusRun.written) :
        LET w == statusRun.written[n]
            a == At(w.idx)
        IN  ~GetServiceStatus(a).configured =>
                /\ w.entry.configured = FALSE
                /\ w.entry.status \in {"healthy", "unavailable"}
                /\ ~a.hasApiKey =>
                     /\ w.entry.status = "unavailable"
                     /\ w.entry.connected = FALSE
                     /\ w.idx \notin Range(statusRun.gets)
                /\ a.hasApiKey =>
                     (w.entry.status = "healthy"
                        <=> (w.probe.type = "ok" /\ w.probe.status = 200))

\* The report holds entries for an adapter without any key and for an
\* unconfigured adapter whose key from the environment was accepted.
C17_Witness ==
    /\ statusRun.pc = "done"
    /\ \E n, m \in 1..Len(statusRun.written) :
         /\ ~At(statusRun.written[n].idx).hasApiKey
         /\ ~GetServiceStatus(At(statusRun.written[m].idx)).configured
         /\ statusRun.written[m].entry.status = "healthy"

C19_CheckHealthNeverThrows ==
    \A n \in 1..Len(statusRun.written) :
        LET w == statusRun.written[n]
        IN  /\ w.entry.status # "error"
            /\ w.probe.type \in {"noresponse", "http"} =>
                 /\ w.entry.connected = FALSE
                 /\ w.entry.status = "unavailable"

\* Health calls failed with a refused connection and with a 401.
C19_Witness ==
    \E n, m \in 1..Len(statusRun.written) :
        /\ statusRun.written[n].probe = [type |-> "noresponse", code |-> "ECONNREFUSED"]
        /\ statusRun.written[m].probe = [type |-> "http", status |-> 401]

\* C20: a step of validateServices leaves the registry, the adapters, the
\* hint currentServiceIndex and every generateSummary call's state as they
\* were.
C20_StatusHasNoSideEffects ==
    [][statusRun' # statusRun => UNCHANGED summaryVars]_vars

\* A status run found the first adapter unavailable while a generateSummary
\* call waits for that adapter's answer.
C20_Witness ==
    /\ pc[1] = "await" /\ i[1] = 0
    /\ statusRun.pc = "await"
    /\ Len(statusRun.written) >= 1
    /\ statusRun.written[1].entry.status = "unavailable"
    /\ statusRun.written[1].probe.type = "http"

\* C21: whenever generateSummary failed with AllProvidersFailed, whatever
\* the providers' failures were, POST /api/summarize answered 503 'Service
\* unavailable'.
C21_AllFailedAnswers503 ==
    (/\ http.summarize.pc = "done"
     /\ pc[1] = "thrown"
     /\ error[1].kind = "AllProvidersFailed")
    => http.summarize.response = [status |-> 503, error |-> "Service unavailable"]

\* C22: when generateSummary failed with NoProvidersConfigured, the status
\* POST /api/summarize answered with is one APIError.isRetryable refuses, so
\* that retryCall does not send the request again.
C22_NoProvidersNotRetried ==
    (/\ http.summarize.pc = "done"
     /\ pc[1] = "thrown"
     /\ error[1].kind = "NoProvidersConfigured")
    => ~IsRetryable(http.summarize.response.status)

\* C23: in a process that passed startup validation, the registry holds a
\* configured provider whenever generateSummary has been invoked, and an
\* environment whose registry would hold no configured provider ends the
\* process at startup.
C23_ValidatedHasProvider ==
    /\ (\E c \in Calls : pc[c] # "idle")
         => \E k \in 1..Len(services) : GetServiceStatus(services[k]).configured
    /\ (/\ boot.pc # "start"
        /\ LET reg == InitializeServices(Validate(boot.env).config, boot.env)
           IN  \A k \in 1..Len(reg) : ~GetServiceStatus(reg[k]).configured)
         => boot.pc = "exited"

\* The server listens with Groq alone configured, and a generateSummary call
\* returned.
C23_Witness ==
    /\ boot.pc = "listening"
    /\ Missing(boot.env.OPENAI_API_KEY)
    /\ \E c \in Calls : pc[c] = "returned"

\* C24: once the caller has cancelled the request, the orchestrator starts
\* no further provider's summarize call.
C24_NoPostAfterCancel ==
    [][http.summarize.aborted => posts'[1] = posts[1]]_vars

C26_RecordHasHistoryEntry ==
    \A k \in ShareIds :
        http.shareRecords[k] # NoShare =>
            LET o == http.objects[SummaryRef(http, http.shareRecords[k].summaryId)]
            IN  /\ o.hist # 0
                /\ \E n \in 1..Len(http.arrays[o.hist]) :
                     http.arrays[o.hist][n].shareId = k

\* C27: with a working email service, a share request with n valid, distinct
\* recipients for a stored summary is sent when n <= 50 and rejected for
\* having too many recipients when n > 50.
C27_FiftyRecipientsAccepted ==
    (/\ http.share.pc = "done"
     /\ http.share.body.valid
     /\ http.share.body.n >= 1
     /\ http.share.body.subject = "S"
     /\ HasSummary(http, http.share.body.summaryId)
     /\ http.share.response.status \notin {500, 503})
    => IF http.share.body.n <= RouteMaxRecipients
       THEN http.share.response.status = 200
       ELSE http.share.response = [status |-> 400, error |-> "Too many recipients"]

\* C29: a request answered with a non-2xx status wrote to no store.
C29_FailureWritesNothing ==
    /\ (http.summarize.pc = "done" /\ http.summarize.response.status \notin 200..299)
         => ~http.summarize.wrote
    /\ (http.share.pc = "done" /\ http.share.response.status \notin 200..299)
         => ~http.share.wrote
    /\ (http.last.route # "<none>" /\ http.last.response.status \notin 200..299)
         => ~http.last.wrote

\* C28: retryCall invokes apiCall at most maxRetries + 1 times; every
\* invocation but the last failed with an APIError whose status is 408, 429,
\* 500, 502, 503 or 504; on success it returns, and on any other error or
\* after the last allowed attempt it rethrows, with no further invocation.
C28_RetryOnlyRetryable ==
    retryRun.pc # "none" =>
        LET run == retryRun
            settled == Len(run.outcomes)
        IN  /\ run.calls <= run.maxRetries + 1
            /\ run.calls = settled + (IF run.pc = "calling" THEN 1 ELSE 0)
            /\ \A n \in 1..(run.calls - 1) :
                 /\ run.outcomes[n].type = "api"
                 /\ run.outcomes[n].status \in {408, 429, 500, 502, 503, 504}
            /\ run.pc = "returned" => run.outcomes[settled].type = "ok"
            /\ run.pc = "thrown" =>
                 /\ run.outcomes[settled].type # "ok"
                 /\ \/ run.calls = run.maxRetries + 1
                    \/ run.outcomes[settled].type = "other"
                    \/ run.outcomes[settled].status
                         \notin {408, 429, 500, 502, 503, 504}
            /\ run.pc = "waiting" =>
                 /\ run.calls <= run.maxRetries
                 /\ run.outcomes[settled].type = "api"
                 /\ run.outcomes[settled].status \in {408, 429, 500, 502, 503, 504}

\* A call with maxRetries 2 was retried after a 503 and a 429 and rethrew
\* the third failure, a 500.
C28_Witness ==
    /\ retryRun.pc = "thrown"
    /\ retryRun.maxRetries = 2
    /\ retryRun.calls = 3
    /\ retryRun.outcomes = <<[type |-> "api", status |-> 503],
                             [type |-> "api", status |-> 429],
                             [type |-> "api", status |-> 500]>>

\* C30: after any sequence of user actions, the prerequisites of every step
\* up to appState.currentStep hold: transcript content or fileId from step 2
\* on, non-empty custom instructions from step 3 on, a generated summary and
\* a summaryId at step 4.
C30_StepPrerequisites ==
    browser.pc = "loaded" =>
        \A k \in 1..browser.appState.currentStep :
            ValidateStateForStep(browser.appState, k)

====
